---------------------------- MODULE Spec2Model ----------------------------
(***************************************************************************)
(* A model of beacon-import.py: the run of main() that enumerates the      *)
(* datasets of the beacon histories of a galaxy and, one dataset after the *)
(* other, downloads it, writes its metadata document, loads both into the  *)
(* beacon database and records the origin of the inserted variant rows.    *)
(***************************************************************************)
EXTENDS Integers, Sequences, FiniteSets, TLC

(***************************************************************************)
(* Bounds of the model.                                                    *)
(***************************************************************************)
\* The galaxy is drawn as a sequence of at most MaxTokens tokens: dataset
\* ids, page breaks and history breaks.
MaxTokens == 4
\* The largest number of characters that follow the head of a label.
MaxTail == 3

(***************************************************************************)
(* Values.                                                                 *)
(***************************************************************************)
\* A path with no file, and a file holding the given variants.
NoFile == [exists |-> FALSE, variants |-> <<>>]
File(vs) == [exists |-> TRUE, variants |-> vs]

PageBreak == "<page>"
HistoryBreak == "<history>"

\* Strings the code looks into are sequences of characters.
Digits == {"0", "1", "2", "3", "4", "5", "6", "7", "8", "9"}
LowerCase == <<"a", "b", "c", "d", "e", "f", "g", "h", "i", "j", "k", "l", "m",
              "n", "o", "p", "q", "r", "s", "t", "u", "v", "w", "x", "y", "z">>
UpperCase == <<"A", "B", "C", "D", "E", "F", "G", "H", "I", "J", "K", "L", "M",
              "N", "O", "P", "Q", "R", "S", "T", "U", "V", "W", "X", "Y", "Z">>
LowerLetters == {LowerCase[i] : i \in 1..26}
UpperLetters == {UpperCase[i] : i \in 1..26}
Letter(c, alphabet) == CHOOSE i \in 1..26 : alphabet[i] = c
Upper == [c \in UpperLetters |-> LowerCase[Letter(c, UpperCase)]]

\* str.upper() of a lower-case letter
ToUpper(c) == UpperCase[Letter(c, LowerCase)]

\* str.lower() of a sequence of characters
Lower(s) == [i \in 1..Len(s) |-> IF s[i] \in UpperLetters THEN Upper[s[i]] ELSE s[i]]

(***************************************************************************)
(* The galaxy: what its API answers.                                       *)
(***************************************************************************)
DatasetIds == {"d1", "d2", "d3", "d4"}

VARIABLE labels      \* the galaxy: dataset id -> its metadata_dbkey

\* d1 and d3 name GRCh38, d1 with a patch level; d2 names hg19, d4 a mouse
\* reference.
DefaultLabels ==
    [id \in DatasetIds |->
        CASE id = "d1" -> <<"G", "R", "C", "h", "3", "8", ".", "p", "1">>
          [] id = "d2" -> <<"h", "g", "1", "9">>
          [] id = "d3" -> <<"G", "R", "C", "h", "3", "8">>
          [] id = "d4" -> <<"m", "m", "1", "0">>]

\* gi.datasets.show_dataset(dataset_id): the full description of a dataset;
\* the values the code looks into or writes are sequences of characters.
\* d1, d2 and d4 are complete; d3 lacks "uuid".
show_dataset(id) ==
    CASE id = "d1" -> [name |-> "n1", id |-> <<"d", "1">>, uuid |-> "u1", extension |-> "vcf",
                       metadata_dbkey |-> labels[id]]
      [] id = "d2" -> [name |-> "n2", id |-> <<"d", "2">>, uuid |-> "u2", extension |-> "vcf_bgzip",
                       metadata_dbkey |-> labels[id]]
      [] id = "d3" -> [name |-> "n3", id |-> <<"d", "3">>, extension |-> "vcf",
                       metadata_dbkey |-> labels[id]]
      [] id = "d4" -> [name |-> "n4", id |-> <<"d", "4">>, uuid |-> "u4", extension |-> "vcf",
                       metadata_dbkey |-> labels[id]]

Uuids == {"u1", "u2", "u4"}

\* The variants of the VCF file the galaxy holds for a dataset: start, REF
\* and the list ALT. d1 and d2 share the variant (100, A, T).
Content(id) ==
    CASE id = <<"d", "1">> -> << [start |-> 100, REF |-> "A", ALT |-> <<"T">>],
                                 [start |-> 200, REF |-> "C", ALT |-> <<"G", "T">>] >>
      [] id = <<"d", "2">> -> << [start |-> 100, REF |-> "A", ALT |-> <<"T">>] >>
      [] OTHER -> << [start |-> 300, REF |-> "G", ALT |-> <<"A">>] >>

\* gi.datasets.get_datasets(history_id, limit, offset): the page of a
\* history that starts at offset; nothing beyond the last page.
get_datasets_page(pages, lim, off) ==
    LET p == (off \div lim) + 1
    IN  IF p <= Len(pages) THEN pages[p] ELSE <<>>

\* The tokens up to the first occurrence of brk, and the tokens after it.
RECURSIVE Before(_, _)
Before(toks, brk) ==
    IF toks = <<>> \/ Head(toks) = brk THEN <<>>
    ELSE <<Head(toks)>> \o Before(Tail(toks), brk)

RECURSIVE After(_, _)
After(toks, brk) ==
    IF toks = <<>> THEN <<>>
    ELSE IF Head(toks) = brk THEN Tail(toks)
    ELSE After(Tail(toks), brk)

RECURSIVE Split(_, _)
Split(toks, brk) ==
    IF brk \in {toks[i] : i \in 1..Len(toks)}
    THEN <<Before(toks, brk)>> \o Split(After(toks, brk), brk)
    ELSE <<toks>>

\* A galaxy: a sequence of histories, each a sequence of pages, each a
\* sequence of dataset ids.
Galaxy(toks) ==
    LET hs == Split(toks, HistoryBreak)
    IN  [h \in 1..Len(hs) |-> Split(hs[h], PageBreak)]

RECURSIVE SeqsUpTo(_, _)
SeqsUpTo(S, n) ==
    IF n = 0 THEN {<<>>}
    ELSE LET shorter == SeqsUpTo(S, n - 1)
         IN  shorter \cup {Append(s, x) : s \in {t \in shorter : Len(t) = n - 1}, x \in S}

\* No dataset is listed twice.
Distinct(toks) ==
    \A i, j \in 1..Len(toks) : (toks[i] \in DatasetIds /\ toks[i] = toks[j]) => i = j

Galaxies ==
    {Galaxy(t) : t \in {x \in SeqsUpTo(DatasetIds \cup {PageBreak, HistoryBreak}, MaxTokens) :
                            Distinct(x)}}

VARIABLES
    histories,       \* the galaxy: histories -> pages -> dataset ids
    skip_origins,    \* args.skip_origins
    pc,              \* where main() is
    error,           \* the exception that ended the run, "none" if none
    connected,       \* db has an open connection
    table,           \* beacon_data_table: a set of rows
    nextIndex,       \* the next value of the serial column index
    dataset_table,   \* beacon_dataset_table: the datasetIds loaded
    counts_table,    \* beacon_dataset_counts_table
    calls,           \* how often main has called db.connection, db.clear_database
    clock,           \* what datetime.datetime.now() reads
    origins_file,    \* the file at args.origins_file
    origins_open,    \* variant_origins_file is an open handle
    files,           \* /tmp/dataset-<uuid>
    metadata_files,  \* /tmp/metadata-<uuid>
    h,               \* main: index of the current history
    offset,          \* get_datasets: offset
    api_dataset_list,\* get_datasets: the page being read
    e,               \* get_datasets: index of the next entry of the page
    dataset,         \* get_datasets: its local dataset, <<>> while unbound
    datasets,        \* get_datasets: the list built, then iterated by main
    d,               \* main: index of the current dataset in datasets
    dataset_id,      \* beacon_import: the id load_metadata returned
    vi, ai,          \* persist_variant_origins: variant and alt being queried
    \* history variables, read by no action
    run,             \* how many datasets main has started to import
    events,          \* the stages executed: <<stage, run>>
    requests,        \* offsets requested by the current call of get_datasets
    considered,      \* page entries the current call of get_datasets has read
    inserted,        \* row index -> the run whose load inserted the row
    mark,            \* the length of the origins file when the last load ended
    fatal            \* the state of the registry when a fatal error was raised

envVars == <<histories, skip_origins, labels>>
dbVars == <<connected, table, nextIndex, dataset_table, counts_table>>
originVars == <<origins_file, origins_open>>
fsVars == <<files, metadata_files>>
enumVars == <<offset, api_dataset_list, e, dataset, datasets, requests, considered>>
importVars == <<dataset_id, vi, ai>>
vars == <<histories, skip_origins, labels, pc, error, connected, table, nextIndex,
          dataset_table, counts_table, calls, clock, origins_file, origins_open, files, metadata_files, h,
          offset, api_dataset_list, e, dataset, datasets, d, dataset_id, vi, ai,
          run, events, requests, considered, inserted, mark, fatal>>

\* get_datasets: limit
limit == 500

\* The registry holds data of an earlier run; so may the origins file.
OldRow == [index |-> 1, datasetId |-> <<"o", "l", "d">>, start |-> 100,
           reference |-> "A", alternate |-> "T"]
OldCounts == [datasetId |-> <<"o", "l", "d">>, callCount |-> 7, variantCount |-> 7]
OldLine == <<1, <<"d", "0">>>>

\* The state main starts in, but for the galaxy, the arguments and what an
\* earlier run has left.
Start ==
    /\ pc = "connect"
    /\ error = "none"
    /\ connected = FALSE
    /\ nextIndex = 2
    /\ calls = [connection |-> 0, clear_database |-> 0]
    /\ clock = 1
    /\ origins_open = FALSE
    /\ files = [u \in Uuids |-> NoFile]
    /\ metadata_files = [u \in Uuids |-> [exists |-> FALSE, json |-> <<>>]]
    /\ h = 0
    /\ offset = 0
    /\ api_dataset_list = <<>>
    /\ e = 1
    /\ dataset = <<>>
    /\ datasets = <<>>
    /\ d = 0
    /\ dataset_id = <<>>
    /\ vi = 1
    /\ ai = 1
    /\ run = 0
    /\ events = <<>>
    /\ requests = <<>>
    /\ considered = 0
    /\ inserted = <<0>>
    /\ mark = 0
    /\ fatal = [raised |-> FALSE, events |-> <<>>, table |-> {}]

Init ==
    /\ histories \in Galaxies
    /\ labels = DefaultLabels
    /\ skip_origins \in BOOLEAN
    /\ \/ table = {OldRow} /\ dataset_table = {OldRow.datasetId}
          /\ counts_table = {OldCounts}
       \/ table = {} /\ dataset_table = {} /\ counts_table = {}
    /\ origins_file \in {[exists |-> FALSE, lines |-> <<>>],
                         [exists |-> TRUE, lines |-> <<OldLine>>]}
    /\ Start

(***************************************************************************)
(* get_datasets and what it calls.                                         *)
(***************************************************************************)
RequiredKeys == {"name", "id", "uuid", "extension", "metadata_dbkey"}

\* GalaxyDataset.__init__: raises MissingFieldException unless every
\* required key is in info.
GalaxyDataset(info) ==
    IF RequiredKeys \subseteq DOMAIN info
    THEN [raised |-> FALSE,
          value |-> [name |-> info.name, id |-> info.id, uuid |-> info.uuid,
                     extension |-> info.extension,
                     reference_name |-> info.metadata_dbkey]]
    ELSE [raised |-> TRUE]

\* \d+ taking one digit only.
DigitRun_One(s, i) == IF i <= Len(s) /\ s[i] \in Digits THEN 1 ELSE 0

\* The length of the longest run of digits of s that starts at position i.
RECURSIVE DigitRun(_, _)
DigitRun(s, i) ==
    IF i <= Len(s) /\ s[i] \in Digits THEN 1 + DigitRun(s, i + 1) ELSE 0

StartsWith(s, prefix) ==
    /\ Len(s) >= Len(prefix)
    /\ SubSeq(s, 1, Len(prefix)) = prefix

\* The reference set to the whole match, group 0, suffix included.
re_match_Group0(label) ==
    LET try(prefix) ==
            IF StartsWith(label, prefix) /\ DigitRun(label, Len(prefix) + 1) >= 1
            THEN [matched |-> TRUE, group1 |-> label]
            ELSE [matched |-> FALSE, group1 |-> <<>>]
    IN  IF try(<<"G", "R", "C", "h">>).matched THEN try(<<"G", "R", "C", "h">>)
        ELSE try(<<"h", "g">>)

\* re.match(r"(GRCh\d+|hg\d+).*", label): the match is anchored at the start
\* of label, \d+ takes every digit that follows the prefix and .* the rest.
re_match(label) ==
    LET try(prefix) ==
            IF StartsWith(label, prefix) /\ DigitRun(label, Len(prefix) + 1) >= 1
            THEN [matched |-> TRUE,
                  group1 |-> SubSeq(label, 1, Len(prefix) + DigitRun(label, Len(prefix) + 1))]
            ELSE [matched |-> FALSE, group1 |-> <<>>]
    IN  IF try(<<"G", "R", "C", "h">>).matched THEN try(<<"G", "R", "C", "h">>)
        ELSE try(<<"h", "g">>)

\* The body of the try statement: the local dataset after it. When the
\* constructor raises, the handler logs a warning and the local keeps what
\* it held.
AfterTry(local, info) ==
    IF GalaxyDataset(info).raised THEN local ELSE <<GalaxyDataset(info).value>>

\* for history in get_beacon_histories(gi): get_datasets(gi, history) begins.
NextHistory ==
    /\ pc = "next_history"
    /\ IF h < Len(histories)
       THEN /\ h' = h + 1
            /\ datasets' = <<>>
            /\ offset' = 0
            /\ dataset' = <<>>
            /\ requests' = <<>>
            /\ considered' = 0
            /\ pc' = "request_page"
       ELSE /\ pc' = "done"
            /\ UNCHANGED <<h, datasets, offset, dataset, requests, considered>>
    /\ UNCHANGED <<envVars, calls, clock, error, dbVars, originVars, fsVars, api_dataset_list, e, d,
                   importVars, run, events, inserted, mark, fatal>>

\* api_dataset_list = gi.datasets.get_datasets(limit=limit, offset=offset)
RequestPage ==
    /\ pc = "request_page"
    /\ api_dataset_list' = get_datasets_page(histories[h], limit, offset)
    /\ requests' = Append(requests, offset)
    /\ e' = 1
    /\ pc' = "read_entry"
    /\ UNCHANGED <<envVars, calls, clock, error, dbVars, originVars, fsVars, h, offset, dataset,
                   datasets, d, importVars, run, events, considered, inserted, mark, fatal>>

\* One turn of the loop over the entries of the page.
ReadEntry ==
    /\ pc = "read_entry"
    /\ e <= Len(api_dataset_list)
    /\ considered' = considered + 1
    /\ LET info == show_dataset(api_dataset_list[e])
           local == AfterTry(dataset, info)
       IN  IF local = <<>>
           THEN \* dataset.reference_name: the local was never bound
                /\ error' = "UnboundLocalError"
                /\ pc' = "aborted"
                /\ UNCHANGED <<dataset, datasets, e>>
           ELSE LET match == re_match(local[1].reference_name)
                IN  /\ IF match.matched
                       THEN /\ dataset' = <<[local[1] EXCEPT !.reference_name = match.group1]>>
                            /\ datasets' = Append(datasets, dataset'[1])
                       ELSE /\ dataset' = local
                            /\ UNCHANGED datasets
                    /\ e' = e + 1
                    /\ UNCHANGED <<pc, error>>
    /\ UNCHANGED <<envVars, calls, clock, dbVars, originVars, fsVars, h, offset, api_dataset_list, d,
                   importVars, run, events, requests, inserted, mark, fatal>>

\* The page is read: offset += limit, and the loop ends on an empty page.
EndPage ==
    /\ pc = "read_entry"
    /\ e > Len(api_dataset_list)
    /\ offset' = offset + limit
    /\ IF Len(api_dataset_list) = 0
       THEN /\ pc' = "next_dataset"
            /\ d' = 0
       ELSE /\ pc' = "request_page"
            /\ UNCHANGED d
    /\ UNCHANGED <<envVars, calls, clock, error, dbVars, originVars, fsVars, h, api_dataset_list, e,
                   dataset, datasets, importVars, run, events, requests, considered,
                   inserted, mark, fatal>>

(***************************************************************************)
(* The stages of one dataset.                                              *)
(***************************************************************************)
\* main with the origins persisted before the variants are loaded.
MainNext_PersistBeforeLoad(stage) ==
    CASE stage = "download"         -> "prepare_metadata"
      [] stage = "prepare_metadata" -> "load_metadata"
      [] stage = "load_metadata"    -> "persist"
      [] stage = "persist"          -> "load_datafile"
      [] stage = "load_datafile"    -> "next_dataset"

\* beacon_import loading the variants before the metadata.
MainNext_DataBeforeMetadata(stage) ==
    CASE stage = "download"         -> "prepare_metadata"
      [] stage = "prepare_metadata" -> "load_datafile"
      [] stage = "load_datafile"    -> "load_metadata"
      [] stage = "load_metadata"    -> IF skip_origins THEN "next_dataset" ELSE "persist"
      [] stage = "persist"          -> "next_dataset"

\* main: the statements of the body of the loop over the datasets, in order;
\* the origins are persisted unless args.skip_origins.
MainNext(stage) ==
    CASE stage = "download"         -> "prepare_metadata"
      [] stage = "prepare_metadata" -> "load_metadata"
      [] stage = "load_metadata"    -> "load_datafile"
      [] stage = "load_datafile"    -> IF skip_origins THEN "next_dataset" ELSE "persist"
      [] stage = "persist"          -> "next_dataset"

\* Every stage with the handler of download_dataset.
OnError_AllSwallowed(stage) ==
    IF stage = "persist" THEN "next_dataset"
    ELSE IF stage = "load_datafile" THEN "persist"
    ELSE IF stage = "load_metadata" THEN "load_datafile"
    ELSE IF stage = "prepare_metadata" THEN "load_metadata"
    ELSE "prepare_metadata"

\* download_dataset without its handler.
OnError_NoneSwallowed(stage) == "aborted"

\* Where main is after a stage raised: download_dataset catches and logs the
\* exception and returns; no other stage has a handler, so the exception
\* leaves main.
OnError(stage) ==
    IF stage = "download" THEN MainNext(stage) ELSE "aborted"

\* re.sub(r"_([a-z])", lambda x: x.group(1).upper(), attribute), from
\* position i on: an underscore and the lower-case letter after it become the
\* upper-case letter.
RECURSIVE CamelFrom(_, _)
CamelFrom(attribute, i) ==
    IF i > Len(attribute) THEN <<>>
    ELSE IF /\ attribute[i] = "_"
            /\ i < Len(attribute)
            /\ attribute[i + 1] \in LowerLetters
         THEN <<ToUpper(attribute[i + 1])>> \o CamelFrom(attribute, i + 2)
         ELSE <<attribute[i]>> \o CamelFrom(attribute, i + 1)

\* __json__ keeping the attribute names.
CamelCase_Identity(attribute) == attribute

CamelCase(attribute) == CamelFrom(attribute, 1)

\* The name built from the display name of the dataset.
MetadataName_FromName(ds) == <<"Galaxy.eu variants for ", ds.name>>

\* prepare_metadata_file: name=... and dataset_id=...
MetadataName(ds) == <<"Galaxy.eu variants for ">> \o ds.reference_name

\* The identifier built from the galaxy id of the dataset.
MetadataDatasetId_FromId(ds) == <<"galaxy-">> \o ds.id

MetadataDatasetId(ds) == <<"galaxy-">> \o Lower(ds.reference_name)

\* The attributes of the dataclass BeaconMetadata, in the order of vars(self).
Attributes ==
    << <<"n", "a", "m", "e">>,
       <<"d", "a", "t", "a", "s", "e", "t", "_", "i", "d">>,
       <<"d", "e", "s", "c", "r", "i", "p", "t", "i", "o", "n">>,
       <<"a", "s", "s", "e", "m", "b", "l", "y", "_", "i", "d">>,
       <<"e", "x", "t", "e", "r", "n", "a", "l", "_", "u", "r", "l">>,
       <<"a", "c", "c", "e", "s", "s", "_", "t", "y", "p", "e">>,
       <<"c", "r", "e", "a", "t", "e", "_", "d", "a", "t", "e", "_", "t", "i", "m", "e">>,
       <<"u", "p", "d", "a", "t", "e", "_", "d", "a", "t", "e", "_", "t", "i", "m", "e">>,
       <<"c", "a", "l", "l", "_", "c", "o", "u", "n", "t">>,
       <<"v", "e", "r", "s", "i", "o", "n">>,
       <<"v", "a", "r", "i", "a", "n", "t", "_", "c", "o", "u", "n", "t">> >>

\* prepare_metadata_file: the BeaconMetadata it assembles, the value of each
\* attribute in that order.
BeaconMetadata(ds, now) ==
    << MetadataName(ds),
       MetadataDatasetId(ds),
       "variants shared by galaxy.eu users",
       ds.reference_name,
       "usegalaxy.eu",
       "PUBLIC",
       now,
       now,
       123,
       "v0.1",
       123 >>

\* The key of each attribute in the document.
JsonKeys == [i \in 1..Len(Attributes) |-> CamelCase(Attributes[i])]

\* BeaconMetadata.__json__: the dictionary of the values under the converted
\* attribute names, as json.dumps writes it: the keys in the order in which
\* they were first set, each with the value set last.
BeaconMetadata_json(metadata) ==
    LET first(i) == \A j \in 1..(i - 1) : JsonKeys[j] # JsonKeys[i]
        last(k) == CHOOSE i \in 1..Len(metadata) :
                       /\ JsonKeys[i] = k
                       /\ \A j \in (i + 1)..Len(metadata) : JsonKeys[j] # k
        entry(i) == <<JsonKeys[i], metadata[last(JsonKeys[i])]>>
        RECURSIVE dump(_)
        dump(i) == IF i > Len(metadata) THEN <<>>
                   ELSE IF first(i) THEN <<entry(i)>> \o dump(i + 1)
                   ELSE dump(i + 1)
    IN  dump(1)

\* The keys of a document, and the value of a key.
Keys(document) == {document[i][1] : i \in 1..Len(document)}
Value(document, k) == document[CHOOSE i \in 1..Len(document) : document[i][1] = k][2]

\* The file prepare_metadata_file writes.
prepare_metadata_file(ds) ==
    [exists |-> TRUE, json |-> BeaconMetadata_json(BeaconMetadata(ds, clock))]

\* db.load_metadata reads these keys of the document.
KeyDatasetId == <<"d", "a", "t", "a", "s", "e", "t", "I", "d">>
KeyCallCount == <<"c", "a", "l", "l", "C", "o", "u", "n", "t">>
KeyVariantCount == <<"v", "a", "r", "i", "a", "n", "t", "C", "o", "u", "n", "t">>

\* main passing the id that load_metadata returned.
OriginId_Registry(ds) == <<"galaxy-">> \o Lower(ds.reference_name)

\* persist_variant_origins: the id written beside every index is the one
\* main passes, dataset.id.
OriginId(ds) == ds.id

\* The (start, REF, alt) occurrences of a file: variants in file order, the
\* alternate alleles of a variant in record order.
RECURSIVE Occurrences(_)
Occurrences(variants) ==
    IF variants = <<>> THEN <<>>
    ELSE LET v == Head(variants)
         IN  [i \in 1..Len(v.ALT) |-> [start |-> v.start, reference |-> v.REF,
                                        alternate |-> v.ALT[i]]]
             \o Occurrences(Tail(variants))

\* db.load_datafile: one row per occurrence, the serial column index counting on.
Rows(occs, first, id) ==
    {[index |-> first + i - 1, datasetId |-> id, start |-> occs[i].start,
      reference |-> occs[i].reference, alternate |-> occs[i].alternate] : i \in 1..Len(occs)}

\* A set of numbers as the ascending list.
RECURSIVE Ascending(_)
Ascending(S) ==
    IF S = {} THEN <<>>
    ELSE LET m == CHOOSE x \in S : \A y \in S : x <= y
         IN  <<m>> \o Ascending(S \ {m})

\* BeaconExtendedDB.get_variant_indices: the index of every row of the table
\* with this start, reference and alternate; rows come in the order of insertion.
get_variant_indices(rows, start, ref, alt) ==
    Ascending({r.index : r \in {x \in rows : /\ x.start = start
                                             /\ x.reference = ref
                                             /\ x.alternate = alt}})

\* One line for a query, whatever it returned.
Lines_FirstOnly(indices, id) ==
    IF indices = <<>> THEN <<>> ELSE << <<indices[1], id>> >>

\* record.write("{} {}\n".format(index, dataset_id)) for every index
Lines(indices, id) == [i \in 1..Len(indices) |-> <<indices[i], id>>]

\* What a failed download leaves at the path: what was there, or a part of
\* the content.
FailedDownload(old, content) ==
    {old} \cup {File(SubSeq(content, 1, n)) : n \in 0..(Len(content) - 1)}

Raise(stage, exc) ==
    /\ error' = exc
    /\ pc' = OnError(stage)

\* for dataset in get_datasets(...): the next dataset, or the next history.
NextDataset ==
    /\ pc = "next_dataset"
    /\ IF d < Len(datasets)
       THEN /\ d' = d + 1
            /\ run' = run + 1
            /\ pc' = "download"
       ELSE /\ pc' = "next_history"
            /\ UNCHANGED <<d, run>>
    /\ UNCHANGED <<envVars, calls, clock, error, dbVars, originVars, fsVars, h, enumVars, importVars,
                   events, inserted, mark, fatal>>

\* download_dataset(gi, dataset, dataset_file)
Download ==
    /\ pc = "download"
    /\ LET ds == datasets[d]
       IN  \/ /\ files' = [files EXCEPT ![ds.uuid] = File(Content(ds.id))]
              /\ events' = Append(events, <<"download", run>>)
              /\ pc' = MainNext("download")
           \/ \E left \in FailedDownload(files[ds.uuid], Content(ds.id)) :
                 /\ files' = [files EXCEPT ![ds.uuid] = left]
                 /\ events' = Append(events, <<"download_failed", run>>)
                 /\ pc' = OnError("download")
    /\ UNCHANGED <<envVars, calls, clock, error, dbVars, originVars, metadata_files, h, enumVars, d,
                   importVars, run, inserted, mark, fatal>>

\* prepare_metadata_file(dataset, metadata_file)
PrepareMetadata ==
    /\ pc = "prepare_metadata"
    /\ LET ds == datasets[d]
       IN  \/ /\ metadata_files' = [metadata_files EXCEPT ![ds.uuid] = prepare_metadata_file(ds)]
              /\ events' = Append(events, <<"prepare_metadata", run>>)
              /\ clock' = clock + 1
              /\ pc' = MainNext("prepare_metadata")
              /\ UNCHANGED <<error, fatal>>
           \/ /\ Raise("prepare_metadata", "OSError")
              /\ events' = Append(events, <<"failed", run>>)
              /\ fatal' = [raised |-> TRUE, events |-> events', table |-> table]
              /\ UNCHANGED <<metadata_files, clock>>
    /\ UNCHANGED <<envVars, calls, dbVars, originVars, files, h, enumVars, d, importVars, run,
                   inserted, mark>>

\* beacon_import: VCF(dataset_file), then db.load_metadata
LoadMetadata ==
    /\ pc = "load_metadata"
    /\ LET ds == datasets[d]
           document == metadata_files[ds.uuid].json
           readable == /\ files[ds.uuid].exists
                       /\ metadata_files[ds.uuid].exists
                       /\ {KeyDatasetId, KeyCallCount, KeyVariantCount} \subseteq Keys(document)
       IN  \/ /\ readable
              /\ dataset_id' = Value(document, KeyDatasetId)
              /\ dataset_table' = dataset_table \cup {dataset_id'}
              /\ counts_table' = counts_table \cup
                     {[datasetId |-> dataset_id',
                       callCount |-> Value(document, KeyCallCount),
                       variantCount |-> Value(document, KeyVariantCount)]}
              /\ events' = Append(events, <<"load_metadata", run>>)
              /\ pc' = MainNext("load_metadata")
              /\ UNCHANGED <<error, fatal>>
           \/ /\ Raise("load_metadata", IF readable THEN "PostgresError" ELSE "OSError")
              /\ events' = Append(events, <<"failed", run>>)
              /\ fatal' = [raised |-> TRUE, events |-> events', table |-> table]
              /\ UNCHANGED <<dataset_id, dataset_table, counts_table>>
    /\ UNCHANGED <<envVars, calls, clock, connected, table, nextIndex, originVars, fsVars, h, enumVars,
                   d, vi, ai, run, inserted, mark>>

\* A load that replaces the rows of the table.
InsertRows_Replace(rows, new) == new

\* db.load_datafile: INSERT INTO beacon_data_table, the rows there stay.
InsertRows(rows, new) == rows \cup new

\* beacon_import: db.load_datafile(dataset_vcf, dataset_file, dataset_id, min_ac=0)
LoadDatafile ==
    /\ pc = "load_datafile"
    /\ LET ds == datasets[d]
           occs == Occurrences(files[ds.uuid].variants)
           insert(n) ==
               /\ table' = InsertRows(table, Rows(SubSeq(occs, 1, n), nextIndex, dataset_id))
               /\ nextIndex' = nextIndex + n
               /\ inserted' = inserted \o [i \in 1..n |-> run]
       IN  \/ /\ insert(Len(occs))
              /\ events' = Append(events, <<"load_datafile", run>>)
              /\ pc' = MainNext("load_datafile")
              /\ vi' = 1
              /\ ai' = 1
              /\ UNCHANGED <<error, fatal>>
           \/ \E n \in 0..(IF occs = <<>> THEN 0 ELSE Len(occs) - 1) :
                 /\ insert(n)
                 /\ Raise("load_datafile", "PostgresError")
                 /\ events' = Append(events, <<"failed", run>>)
                 /\ fatal' = [raised |-> TRUE, events |-> events', table |-> table']
                 /\ UNCHANGED <<vi, ai>>
    /\ mark' = Len(origins_file.lines)
    /\ UNCHANGED <<envVars, calls, clock, connected, dataset_table, counts_table, originVars, fsVars, h, enumVars, d,
                   dataset_id, run>>

\* persist_variant_origins: one query, and a line written for every index.
PersistQuery ==
    /\ pc = "persist"
    /\ LET ds == datasets[d]
           vcf == files[ds.uuid].variants
       IN  /\ vi <= Len(vcf)
           /\ ai <= Len(vcf[vi].ALT)
           /\ \/ /\ origins_file' =
                       [origins_file EXCEPT !.lines = @ \o
                           Lines(get_variant_indices(table, vcf[vi].start, vcf[vi].REF,
                                                     vcf[vi].ALT[ai]),
                                 OriginId(ds))]
                 /\ ai' = ai + 1
                 /\ events' = IF events # <<>> /\ events[Len(events)] = <<"persist", run>>
                              THEN events
                              ELSE Append(events, <<"persist", run>>)
                 /\ UNCHANGED <<pc, error, fatal>>
              \/ /\ Raise("persist", "PostgresError")
                 /\ events' = Append(events, <<"failed", run>>)
                 /\ fatal' = [raised |-> TRUE, events |-> events', table |-> table]
                 /\ UNCHANGED <<origins_file, ai>>
    /\ UNCHANGED <<envVars, calls, clock, dbVars, origins_open, fsVars, h, enumVars, d, dataset_id, vi,
                   run, inserted, mark>>

\* persist_variant_origins: the alternate alleles of a variant are done.
PersistNextVariant ==
    /\ pc = "persist"
    /\ LET vcf == files[datasets[d].uuid].variants
       IN  /\ vi <= Len(vcf)
           /\ ai > Len(vcf[vi].ALT)
    /\ vi' = vi + 1
    /\ ai' = 1
    /\ UNCHANGED <<envVars, calls, clock, pc, error, dbVars, originVars, fsVars, h, enumVars, d,
                   dataset_id, run, events, inserted, mark, fatal>>

\* persist_variant_origins: the variants are done.
PersistEnd ==
    /\ pc = "persist"
    /\ vi > Len(files[datasets[d].uuid].variants)
    /\ events' = Append(events, <<"persisted", run>>)
    /\ pc' = MainNext("persist")
    /\ UNCHANGED <<envVars, calls, clock, error, dbVars, originVars, fsVars, h, enumVars, d, importVars,
                   run, inserted, mark, fatal>>

(***************************************************************************)
(* The start of main.                                                      *)
(***************************************************************************)
\* loop.run_until_complete(db.connection())
Connect ==
    /\ pc = "connect"
    /\ connected' = TRUE
    /\ calls' = [calls EXCEPT !.connection = @ + 1]
    /\ pc' = "clear_database"
    /\ UNCHANGED <<envVars, clock, error, table, nextIndex, dataset_table, counts_table,
                   originVars, fsVars,
                   h, enumVars, d, importVars, run, events, inserted, mark, fatal>>

\* The registry: its three tables and the sequence of the serial column.
Registry ==
    [beacon_data_table |-> table, beacon_dataset_table |-> dataset_table,
     beacon_dataset_counts_table |-> counts_table, index_seq |-> nextIndex]

\* clear_database deleting nothing.
clear_database_NoDelete(db) == db

\* clear_database without its third DELETE.
clear_database_KeepsCounts(db) ==
    [db EXCEPT !.beacon_data_table = {}, !.beacon_dataset_table = {}]

\* BeaconExtendedDB.clear_database: DELETE FROM each of the three tables; the
\* sequence of the serial column counts on.
clear_database(db) ==
    [db EXCEPT !.beacon_data_table = {},
               !.beacon_dataset_table = {},
               !.beacon_dataset_counts_table = {}]

\* loop.run_until_complete(db.clear_database())
ClearDatabase ==
    /\ pc = "clear_database"
    /\ LET db == clear_database(Registry)
       IN  /\ table' = db.beacon_data_table
           /\ dataset_table' = db.beacon_dataset_table
           /\ counts_table' = db.beacon_dataset_counts_table
           /\ nextIndex' = db.index_seq
    /\ calls' = [calls EXCEPT !.clear_database = @ + 1]
    /\ pc' = IF skip_origins THEN "next_history" ELSE "open_origins"
    /\ UNCHANGED <<envVars, clock, error, connected, originVars, fsVars, h, enumVars,
                   d, importVars, run, events, inserted, mark, fatal>>

\* os.remove(args.origins_file), whose failure is ignored, then
\* open(args.origins_file, "a")
OpenOrigins ==
    /\ pc = "open_origins"
    /\ \/ origins_file' = [exists |-> TRUE, lines |-> <<>>]
       \/ /\ origins_file.exists
          /\ origins_file' = origins_file
    /\ origins_open' = TRUE
    /\ pc' = "next_history"
    /\ UNCHANGED <<envVars, calls, clock, error, dbVars, fsVars, h, enumVars, d, importVars, run,
                   events, inserted, mark, fatal>>

Next ==
    \/ Connect
    \/ ClearDatabase
    \/ OpenOrigins
    \/ NextHistory
    \/ RequestPage
    \/ ReadEntry
    \/ EndPage
    \/ NextDataset
    \/ Download
    \/ PrepareMetadata
    \/ LoadMetadata
    \/ LoadDatafile
    \/ PersistQuery
    \/ PersistNextVariant
    \/ PersistEnd

Spec == Init /\ [][Next]_vars

(***************************************************************************)
(* The same program run on galaxies whose datasets are labelled with       *)
(* every reference of a bounded set of labels.                             *)
(***************************************************************************)
\* The two family prefixes of the pattern, prefixes written in another case,
\* cut short or not at the start, and no prefix at all.
Heads ==
    {<<"G", "R", "C", "h">>, <<"h", "g">>, <<"G", "R", "C">>, <<"g", "r", "c", "h">>,
     <<"H", "g">>, <<"x", "h", "g">>, <<>>}

\* Digits, the dot of a patch level and a letter.
TailChars == {"3", "8", ".", "p"}

\* The values of metadata_dbkey the galaxy may hold for a dataset.
Labels == {head \o tail : head \in Heads, tail \in SeqsUpTo(TailChars, MaxTail)}

\* d1 alone, d1 beside the complete d2, d1 followed by the incomplete d3,
\* and d1 on the second page of a history behind the mouse dataset d4.
LabelGalaxies ==
    {Galaxy(<<"d1">>), Galaxy(<<"d1", "d2">>), Galaxy(<<"d1", "d3">>),
     Galaxy(<<"d4", PageBreak, "d1">>)}

InitLabels ==
    /\ histories \in LabelGalaxies
    /\ \E label \in Labels :
          labels = [DefaultLabels EXCEPT !["d1"] = label, !["d2"] = <<"h", "g", "3", "8">>]
    /\ skip_origins = FALSE
    /\ table = {OldRow}
    /\ dataset_table = {OldRow.datasetId}
    /\ counts_table = {OldCounts}
    /\ origins_file = [exists |-> FALSE, lines |-> <<>>]
    /\ Start

SpecLabels == InitLabels /\ [][Next]_vars

(***************************************************************************)
(* Properties.                                                             *)
(***************************************************************************)
Enumerating == pc \in {"request_page", "read_entry"}

\* get_datasets has returned for the current history.
Returned == h >= 1 /\ ~Enumerating /\ error # "UnboundLocalError"

\* The pages of a history before its first empty page.
RECURSIVE UntilEmpty(_)
UntilEmpty(pages) ==
    IF pages = <<>> \/ Head(pages) = <<>> THEN <<>>
    ELSE <<Head(pages)>> \o UntilEmpty(Tail(pages))

RECURSIVE Flatten(_)
Flatten(seqs) == IF seqs = <<>> THEN <<>> ELSE Head(seqs) \o Flatten(Tail(seqs))

\* The entries get_datasets is to read: those of every page before the
\* first empty one, in page order.
Entries(pages) == Flatten(UntilEmpty(pages))

\* An entry that has the five required fields and a matching reference.
Importable(id) ==
    /\ RequiredKeys \subseteq DOMAIN show_dataset(id)
    /\ re_match(show_dataset(id).metadata_dbkey).matched

RECURSIVE Keep(_)
Keep(ids) ==
    IF ids = <<>> THEN <<>>
    ELSE IF Importable(Head(ids)) THEN <<Head(ids)>> \o Keep(Tail(ids))
    ELSE Keep(Tail(ids))

\* The row of the table with the given index belongs to the occurrence queried.
RowMatches(i, start, ref, alt) ==
    \E r \in table : /\ r.index = i
                     /\ r.start = start
                     /\ r.reference = ref
                     /\ r.alternate = alt

\* persist_variant_origins is about to query the occurrence (vi, ai).
AtQuery ==
    /\ pc = "persist"
    /\ vi <= Len(files[datasets[d].uuid].variants)
    /\ ai <= Len(files[datasets[d].uuid].variants[vi].ALT)

\* C1: origin attribution. While the origins of a dataset are persisted right
\* after its load, the point query for an occurrence of the dataset returns
\* exactly the indices of the rows that the load of this dataset inserted for
\* that (start, ref, alt), also when an earlier dataset of the run holds the
\* same occurrence.
C1_QueryReturnsOwnRows ==
    AtQuery =>
        LET v == files[datasets[d].uuid].variants[vi]
            got == get_variant_indices(table, v.start, v.REF, v.ALT[ai])
        IN  {got[i] : i \in 1..Len(got)} =
                {i \in 1..Len(inserted) :
                    inserted[i] = run /\ RowMatches(i, v.start, v.REF, v.ALT[ai])}

\* C2: the enumerator's skip never aborts. get_datasets never raises on an
\* entry that lacks a required field or has an unmatched reference, and once
\* it is over it has read every entry of every page before the first empty
\* page of the history.
C2_SkipNeverAborts ==
    /\ error # "UnboundLocalError"
    /\ (h >= 1 /\ ~Enumerating) => considered = Len(Entries(histories[h]))

\* C3: the enumerator's output. The list get_datasets returns holds exactly
\* one descriptor for each entry that has the five required fields and a
\* matching reference, in page order, and none for any other entry.
C3_EnumeratorOutput ==
    Returned =>
        LET kept == Keep(Entries(histories[h]))
        IN  /\ Len(datasets) = Len(kept)
            /\ \A i \in 1..Len(kept) :
                  /\ datasets[i].id = show_dataset(kept[i]).id
                  /\ datasets[i].uuid = show_dataset(kept[i]).uuid
                  /\ datasets[i].name = show_dataset(kept[i]).name

\* C4: the enumerator's pagination. The offsets get_datasets requests are 0,
\* 500, 1000, ... and, when the first empty page of the history is the k-th,
\* the call is over after exactly k requests.
C4_Pagination ==
    LET k == Len(UntilEmpty(histories[h])) + 1
    IN  h >= 1 =>
          /\ \A i \in 1..Len(requests) : requests[i] = (i - 1) * 500
          /\ Len(requests) <= k
          /\ ~Enumerating => Len(requests) = k

Last(seq) == seq[Len(seq)]

\* C5: load-then-track isolation. The origins of a dataset are persisted only
\* once its load_datafile has completed, with no stage of another dataset in
\* between, and the stages of a dataset are over before those of the next one
\* begin.
C5_LoadThenTrack ==
    /\ \A i \in 1..Len(events) :
          events[i][1] \in {"persist", "persisted"} =>
              /\ i > 1
              /\ events[i - 1] \in {<<"load_datafile", events[i][2]>>,
                                    <<"persist", events[i][2]>>}
    /\ \A i, j \in 1..Len(events) : i < j => events[i][2] <= events[j][2]
    /\ pc = "persist" =>
          /\ events # <<>>
          /\ Last(events) \in {<<"load_datafile", run>>, <<"persist", run>>}

\* The origins of the second dataset of a run are being persisted.
C5_Witness ==
    /\ pc = "persist"
    /\ run = 2
    /\ Last(events) = <<"persist", 2>>
    /\ <<"persisted", 1>> \in {events[i] : i \in 1..Len(events)}

\* The lines that a step appends to the origins file.
NewLines == SubSeq(origins_file'.lines, Len(origins_file.lines) + 1, Len(origins_file'.lines))

\* C6 as claimed: the second token of every line written to the origins file
\* is the dataset identifier that load_metadata returned for the dataset.
C6_RegistryIdWritten ==
    [][\A i \in 1..Len(NewLines) : NewLines[i][2] = dataset_id]_vars

\* C6: the second token of every line written to the origins file is the id
\* the galaxy gave the dataset whose origins are persisted.
C6_GalaxyIdWritten ==
    [][\A i \in 1..Len(NewLines) : NewLines[i][2] = datasets[d].id]_vars

\* A line was written for the dataset being persisted.
C6_Witness ==
    /\ pc = "persist"
    /\ Len(origins_file.lines) > mark
    /\ Last(origins_file.lines)[2] = <<"d", "2">>

\* The lines persist_variant_origins is to write for the first n occurrences
\* of a file: for each occurrence in turn, a line for each index of its query.
RECURSIVE Expected(_, _, _)
Expected(occs, n, id) ==
    IF n = 0 THEN <<>>
    ELSE LET q == get_variant_indices(table, occs[n].start, occs[n].reference,
                                      occs[n].alternate)
         IN  Expected(occs, n - 1, id) \o [i \in 1..Len(q) |-> <<q[i], id>>]

\* The number of occurrences of the variants before the vi-th, plus those of
\* the vi-th before the ai-th.
RECURSIVE Queried(_, _, _)
Queried(variants, v, a) ==
    IF v = 1 THEN a - 1
    ELSE Len(variants[v - 1].ALT) + Queried(variants, v - 1, a)

IsPrefix(s, t) == Len(s) <= Len(t) /\ SubSeq(t, 1, Len(s)) = s

C7_Content ==
    pc = "persist" =>
        LET variants == files[datasets[d].uuid].variants
        IN  /\ mark <= Len(origins_file.lines)
            /\ SubSeq(origins_file.lines, mark + 1, Len(origins_file.lines))
                   = Expected(Occurrences(variants), Queried(variants, vi, ai), datasets[d].id)

\* C7: content and order of the origins file. What persist_variant_origins has
\* appended for a dataset is one line for each index of each query, variants
\* in file order, alternate alleles in record order, indices in the order of
\* the query; and once the file is open no step changes or removes a line
\* written before.
C7_OriginsFile ==
    /\ []C7_Content
    /\ [][origins_open => IsPrefix(origins_file.lines, origins_file'.lines)]_vars

\* A query of a later dataset has returned two indices, after lines of an
\* earlier dataset.
C7_Witness ==
    /\ pc = "persist"
    /\ mark >= 1
    /\ Len(origins_file.lines) >= mark + 2
    /\ run >= 2

\* C8: fatal errors abort the run. Once the writing of the metadata document,
\* load_metadata, load_datafile or a point query has failed, main is over, no
\* stage is executed any more and the rows that were in the table are there.
C8_FatalAborts ==
    fatal.raised =>
        /\ pc = "aborted"
        /\ events = fatal.events
        /\ fatal.table \subseteq table

\* load_datafile failed for the second dataset with rows of both in the table.
C8_Witness ==
    /\ fatal.raised
    /\ run = 2
    /\ error = "PostgresError"
    /\ \E r1, r2 \in table : inserted[r1.index] = 1 /\ inserted[r2.index] = 2

\* C9: a failed transfer is swallowed. After a download that raised, main
\* goes on with prepare_metadata_file for the same dataset and, when that has
\* written the document, with beacon_import for it.
C9_TransferFailureSwallowed ==
    \A i \in 1..Len(events) :
        events[i][1] = "download_failed" =>
            LET n == events[i][2]
            IN  /\ i = Len(events) => pc = "prepare_metadata" /\ run = n /\ error = "none"
                /\ i < Len(events) => events[i + 1] \in {<<"prepare_metadata", n>>, <<"failed", n>>}
                /\ (i + 1 = Len(events) /\ Last(events)[1] = "prepare_metadata") =>
                       pc = "load_metadata" /\ run = n
                /\ (i + 1 < Len(events) /\ events[i + 1][1] = "prepare_metadata") =>
                       events[i + 2] \in {<<"load_metadata", n>>, <<"failed", n>>}

\* beacon_import has loaded the metadata of a dataset whose download failed.
C9_Witness ==
    /\ Len(events) >= 3
    /\ events[Len(events) - 2][1] = "download_failed"
    /\ Last(events)[1] = "load_metadata"
    /\ pc = "load_datafile"

\* C10: resource teardown. When the run is over, after the last dataset or
\* by a fatal error, the connection to the registry is closed and so is the
\* handle of the origins file.
C10_Teardown ==
    pc \in {"done", "aborted"} => ~connected /\ ~origins_open

\* C11: the cycle of a dataset ends with cleanup. When the transfer of a
\* dataset starts no file of another dataset is left, and when the run is
\* done no dataset file and no metadata file is left.
C11_CleanupEndsCycle ==
    /\ pc = "download" =>
          \A u \in Uuids \ {datasets[d].uuid} :
              ~files[u].exists /\ ~metadata_files[u].exists
    /\ pc = "done" => \A u \in Uuids : ~files[u].exists /\ ~metadata_files[u].exists

\* C12: the origins file is reset at the start of the run. With origin
\* tracking, the open file holds no line of an earlier run; with
\* --skip-origins the file is neither removed, created, opened nor written
\* and no point query is issued.
C12_OriginsReset ==
    /\ origins_open => \A i \in 1..Len(origins_file.lines) : origins_file.lines[i] # OldLine
    /\ skip_origins =>
          /\ ~origins_open
          /\ origins_file \in {[exists |-> FALSE, lines |-> <<>>],
                               [exists |-> TRUE, lines |-> <<OldLine>>]}
          /\ pc # "persist"
          /\ \A i \in 1..Len(events) : events[i][1] \notin {"persist", "persisted"}

\* C13: the metadata load precedes the variant load. load_datafile starts only
\* when load_metadata has returned for the same dataset, it is called with the
\* identifier that call returned, which is the datasetId of the document of
\* this dataset, and it is not called when load_metadata failed.
C13_MetadataBeforeData ==
    /\ pc = "load_datafile" =>
          /\ events # <<>>
          /\ Last(events) = <<"load_metadata", run>>
          /\ dataset_id = Value(metadata_files[datasets[d].uuid].json, KeyDatasetId)
    /\ \A i \in 1..Len(events) :
          /\ events[i][1] = "load_datafile" =>
                i > 1 /\ events[i - 1] = <<"load_metadata", events[i][2]>>
          /\ events[i][1] = "failed" => i = Len(events) /\ pc = "aborted"
    /\ \A r \in table : (run >= 1 /\ inserted[r.index] = run) => r.datasetId = dataset_id

\* The variants of the second dataset are about to be loaded under another
\* identifier than those of the first.
C13_Witness ==
    /\ pc = "load_datafile"
    /\ run = 2
    /\ \E r \in table : r.datasetId # dataset_id

\* C14: connect and clear once before any import. The connection is opened
\* once and clear_database runs once, after the connection is open and before
\* any history is listed, page requested, dataset transferred or loaded; no
\* row is loaded beside rows of an earlier run.
C14_ConnectClearOnce ==
    /\ calls.connection = (IF pc = "connect" THEN 0 ELSE 1)
    /\ calls.clear_database = (IF pc \in {"connect", "clear_database"} THEN 0 ELSE 1)
    /\ connected = (calls.connection = 1)
    /\ calls.clear_database = 0 =>
          /\ h = 0
          /\ requests = <<>>
          /\ events = <<>>
          /\ run = 0
          /\ Len(inserted) = 1
    /\ Len(inserted) > 1 =>
          /\ OldRow \notin table
          /\ OldRow.datasetId \notin dataset_table
          /\ \A r \in table : inserted[r.index] >= 1

\* A run that has loaded variants is done.
C14_Witness ==
    /\ pc = "done"
    /\ table # {}
    /\ calls = [connection |-> 1, clear_database |-> 1]

\* C18: clear is idempotent. Whatever the registry holds, clear_database
\* leaves its three tables empty, and clearing again changes nothing.
C18_ClearIdempotent ==
    LET once == clear_database(Registry)
    IN  /\ once.beacon_data_table = {}
        /\ once.beacon_dataset_table = {}
        /\ once.beacon_dataset_counts_table = {}
        /\ clear_database(once) = once

\* clear_database is about to run on a registry with rows in every table, and
\* a registry has been filled by the run.
C18_Witness ==
    /\ table # {}
    /\ dataset_table # {}
    /\ counts_table # {}
    /\ \/ pc = "clear_database"
       \/ Cardinality(table) >= 3

\* The labels the pattern accepts, stated without the matcher: a family prefix
\* at the start, then digits up to position m, where the digits end.
Prefixes == {<<"G", "R", "C", "h">>, <<"h", "g">>}

Normalized(label) ==
    {SubSeq(label, 1, m) : m \in
        {n \in 1..Len(label) :
            \E prefix \in Prefixes :
                /\ n > Len(prefix)
                /\ SubSeq(label, 1, Len(prefix)) = prefix
                /\ \A k \in (Len(prefix) + 1)..n : label[k] \in Digits
                /\ n = Len(label) \/ label[n + 1] \notin Digits}}

\* The reference name the normalizer is applied to when entry e is read: the
\* label of the entry, or the name of the descriptor read before when the
\* entry lacks a field.
LabelRead ==
    LET info == show_dataset(api_dataset_list[e])
    IN  IF RequiredKeys \subseteq DOMAIN info THEN info.metadata_dbkey
        ELSE dataset[1].reference_name

\* An entry is read and the normalizer applied.
Normalizes ==
    /\ pc = "read_entry"
    /\ e <= Len(api_dataset_list)
    /\ e' = e + 1

\* C15: reference-genome normalization. A label that starts with GRCh or hg
\* followed by digits yields the prefix with all the digits that follow it,
\* whatever comes after; any other label yields no match and no descriptor;
\* a normalized name is normalized to itself.
C15_Normalization ==
    /\ [][Normalizes =>
             IF Normalized(LabelRead) = {}
             THEN datasets' = datasets
             ELSE /\ datasets' = Append(datasets, dataset'[1])
                  /\ dataset'[1].reference_name \in Normalized(LabelRead)
                  /\ LabelRead \in Normalized(LabelRead) => dataset'[1].reference_name = LabelRead]_vars
    /\ [](\A i \in 1..Len(datasets) :
             re_match(datasets[i].reference_name) =
                 [matched |-> TRUE, group1 |-> datasets[i].reference_name])

\* The suffix of the label of d1 was discarded, and the normalizer was applied
\* again to the normalized name when the incomplete d3 was read.
C15_Witness ==
    /\ Len(datasets) = 2
    /\ datasets[1] = datasets[2]
    /\ datasets[1].id = <<"d", "1">>
    /\ datasets[1].reference_name # labels["d1"]

\* The descriptors of the history whose document is written, and the document.
Synthesized == {i \in 1..Len(datasets) : metadata_files[datasets[i].uuid].exists}
Document(i) == metadata_files[datasets[i].uuid].json

KeyAssemblyId == <<"a", "s", "s", "e", "m", "b", "l", "y", "I", "d">>
KeyAccessType == <<"a", "c", "c", "e", "s", "s", "T", "y", "p", "e">>
KeyCreateDateTime == <<"c", "r", "e", "a", "t", "e", "D", "a", "t", "e", "T", "i", "m", "e">>
KeyUpdateDateTime == <<"u", "p", "d", "a", "t", "e", "D", "a", "t", "e", "T", "i", "m", "e">>

\* C16: the synthesized identifier depends only on the reference. The
\* datasetId of a document is galaxy- followed by the lower-cased reference
\* name of its descriptor; descriptors with the same reference name have the
\* same datasetId and descriptors whose reference names differ other than by
\* case have different ones.
C16_IdFromReference ==
    \A i, j \in Synthesized :
        /\ KeyDatasetId \in Keys(Document(i))
        /\ KeyDatasetId \in Keys(Document(j))
        /\ Value(Document(i), KeyDatasetId) = <<"galaxy-">> \o Lower(datasets[i].reference_name)
        /\ datasets[i].reference_name = datasets[j].reference_name =>
              Value(Document(i), KeyDatasetId) = Value(Document(j), KeyDatasetId)
        /\ Lower(datasets[i].reference_name) # Lower(datasets[j].reference_name) =>
              Value(Document(i), KeyDatasetId) # Value(Document(j), KeyDatasetId)

\* The documents of d1 and d2, which differ in id, uuid, name and extension
\* and share the reference name, are both written.
C16_Witness ==
    /\ Synthesized = {1, 2}
    /\ datasets[1].id # datasets[2].id
    /\ datasets[1].uuid # datasets[2].uuid
    /\ datasets[1].reference_name = datasets[2].reference_name

\* C17: privacy boundary of the metadata document. The documents of two
\* descriptors with the same reference name have the same keys and, apart
\* from createDateTime and updateDateTime, the same values, whatever their
\* id, uuid, name and extension.
C17_PrivacyBoundary ==
    \A i, j \in Synthesized :
        datasets[i].reference_name = datasets[j].reference_name =>
            /\ Keys(Document(i)) = Keys(Document(j))
            /\ \A k \in Keys(Document(i)) \ {KeyCreateDateTime, KeyUpdateDateTime} :
                  Value(Document(i), k) = Value(Document(j), k)

\* Two descriptors that differ in every other field share the reference
\* name, and their documents were written at different times.
C17_Witness ==
    /\ \E i, j \in Synthesized :
          /\ datasets[i].reference_name = datasets[j].reference_name
          /\ datasets[i].id # datasets[j].id
          /\ datasets[i].uuid # datasets[j].uuid
          /\ datasets[i].name # datasets[j].name
          /\ datasets[i].extension # datasets[j].extension
          /\ Value(Document(i), KeyCreateDateTime) # Value(Document(j), KeyCreateDateTime)

ElevenKeys ==
    {<<"n", "a", "m", "e">>,
     <<"d", "a", "t", "a", "s", "e", "t", "I", "d">>,
     <<"d", "e", "s", "c", "r", "i", "p", "t", "i", "o", "n">>,
     <<"a", "s", "s", "e", "m", "b", "l", "y", "I", "d">>,
     <<"e", "x", "t", "e", "r", "n", "a", "l", "U", "r", "l">>,
     <<"a", "c", "c", "e", "s", "s", "T", "y", "p", "e">>,
     <<"c", "r", "e", "a", "t", "e", "D", "a", "t", "e", "T", "i", "m", "e">>,
     <<"u", "p", "d", "a", "t", "e", "D", "a", "t", "e", "T", "i", "m", "e">>,
     <<"c", "a", "l", "l", "C", "o", "u", "n", "t">>,
     <<"v", "e", "r", "s", "i", "o", "n">>,
     <<"v", "a", "r", "i", "a", "n", "t", "C", "o", "u", "n", "t">>}

\* C19: metadata document shape. The document written for a descriptor has
\* exactly the eleven camel-case keys, none with an underscore, its
\* assemblyId is the reference name of the descriptor and its accessType is
\* one of PUBLIC, REGISTERED and CONTROLLED.
C19_DocumentShape ==
    \A i \in Synthesized :
        /\ Keys(Document(i)) = ElevenKeys
        /\ Len(Document(i)) = 11
        /\ \A k \in Keys(Document(i)) : \A c \in 1..Len(k) : k[c] # "_"
        /\ Value(Document(i), KeyAssemblyId) = datasets[i].reference_name
        /\ Value(Document(i), KeyAccessType) \in {"PUBLIC", "REGISTERED", "CONTROLLED"}

\* The document of a descriptor whose label had a suffix is about to be
\* loaded.
C19_Witness ==
    /\ pc = "load_metadata"
    /\ d \in Synthesized
    /\ datasets[d].id = <<"d", "1">>
    /\ datasets[d].reference_name # labels["d1"]

\* A family prefix followed by digits and nothing else.
WellFormed(name) ==
    \E prefix \in Prefixes :
        /\ Len(name) > Len(prefix)
        /\ SubSeq(name, 1, Len(prefix)) = prefix
        /\ \A k \in (Len(prefix) + 1)..Len(name) : name[k] \in Digits

\* C20: normalized-reference invariant. Every descriptor of the list
\* get_datasets builds, and so every dataset main transfers, synthesizes
\* metadata for or loads, has a reference name made of GRCh or hg followed
\* by digits only.
C20_NormalizedReference ==
    /\ \A i \in 1..Len(datasets) : WellFormed(datasets[i].reference_name)
    /\ pc \in {"download", "prepare_metadata", "load_metadata", "load_datafile"} =>
          /\ d \in 1..Len(datasets)
          /\ WellFormed(datasets[d].reference_name)

\* A dataset whose label went on after the digits is loaded, behind a
\* dataset with an unmatched reference that was skipped.
C20_Witness ==
    /\ pc = "load_datafile"
    /\ considered = 2
    /\ Len(datasets) = 1
    /\ Len(labels["d1"]) > Len(datasets[1].reference_name)

\* The lines of the origins file this run has written.
WrittenLines ==
    {origins_file.lines[i] : i \in {j \in 1..Len(origins_file.lines) :
                                       origins_open /\ origins_file.lines[j] # OldLine}}

\* C21: origin records stay valid within a run. Once the registry is cleared
\* no step of the run removes or changes a row, origin tracking leaves the
\* registry as it is, and the index of every line the run has written to the
\* origins file is the index of a row of the registry, up to the end of the run.
C21_RecordsStayValid ==
    /\ [](\A line \in WrittenLines : \E r \in table : r.index = line[1])
    /\ [][/\ calls.clear_database = 1 => table \subseteq table'
          /\ pc = "persist" => UNCHANGED dbVars]_vars

\* The run is done with lines written for two datasets.
C21_Witness ==
    /\ pc = "done"
    /\ run = 2
    /\ Cardinality(WrittenLines) >= 3
    /\ \A line \in WrittenLines : \E r \in table : r.index = line[1]

====
